---- MODULE Spec2Model ----
(***************************************************************************)
(* xenoDB client: the request/response correlation of DatabaseManager and  *)
(* Database.  The manager owns one WebSocket and the table `requests`;     *)
(* every Database operation validates its input, registers a request       *)
(* under a fresh requestId, sends the payload and arms a 2500 ms timer;    *)
(* the manager's message handler settles the entry a response names.       *)
(*                                                                         *)
(* The repository holds three revisions of the Database class              *)
(* (src/src/database.ts, src/unnamed/part_001, src/unnamed/part_002); the  *)
(* variable `revision` says which one the running program was built from.  *)
(* JavaScript runs every handler to completion, so each handler is one     *)
(* atomic action.                                                          *)
(***************************************************************************)
EXTENDS Integers, Sequences, FiniteSets, TLC

\* ------------------------------------------------------------- bounds
\* number of requestIds one run of Spec may issue
MaxReq == 2
\* number of requestIds one run of OpsSpec may issue
MaxOpsReq == 1
\* longest batch handed to getMany / deleteMany / setMany
MaxBatch == 2

\* ------------------------------------------------------------- constants
\* longest key #validateKey accepts
MaxKeyLen == 255

VARIABLES
  revision,      \* which revision of class Database is running
  readyState,    \* manager.webSocket?.readyState ("absent": webSocket undefined)
  connectPc,     \* connect(): "idle", "awaitOpen" (suspended at the await), "done"
  databases,     \* the Database handles createDatabase has returned
  requests,      \* keys of manager.requests
  promise,       \* request.promise of every issued requestId
  timeout,       \* request.timeout of every issued requestId
  sent,          \* what webSocket.send has put on the wire, in order
  nextId,        \* the next fresh requestId (randomUUID)
  fault,         \* "none", or "uncaught": a handler threw into the event loop
  step,          \* the handler that ran last, and how it ended
  call           \* the operation the host called in the last step, where a
                 \* specification observes calls (KeySpec, PushSpec)

vars == <<revision, readyState, connectPc, databases, requests, promise, timeout,
          sent, nextId, fault, step, call>>

Revisions == {"database.ts", "part_001", "part_002"}

Ids == 1..MaxReq

\* requestId of a response that names no request ever issued ("abc")
UnknownId == 0

\* a response without a requestId field: response.requestId is undefined
Undefined == -1

\* payloads a server puts in `data`, and the descriptions it puts in `error`
Data == {"d1"}

ErrDesc == {"e1"}

\* ------------------------------------------------------------- promises
NoResponse == [requestId |-> Undefined, data |-> "-", error |-> "-"]

NoPromise == [state |-> "none", data |-> "-", error |-> "-", response |-> NoResponse]

Pending == [state |-> "pending", data |-> "-", error |-> "-", response |-> NoResponse]

Resolved(d) == [state |-> "resolved", data |-> d, error |-> "-", response |-> NoResponse]

\* new Error("Request timed out")
TimedOut == [state |-> "rejected", data |-> "-", error |-> "Request timed out",
             response |-> NoResponse]

\* new Error(JSON.stringify(response)): the message is the whole envelope
ServerError(resp) == [state |-> "rejected", data |-> "-", error |-> "server",
                      response |-> resp]

\* a settle that overwrites an already settled promise
SettleOverwrites(p, outcome) == outcome

\* the resolve / reject of `new Promise`: only the first call takes effect
Settle(p, outcome) == IF p.state = "pending" THEN outcome ELSE p

\* clearTimeout: cancels an armed timer; no effect on undefined or a fired one
clearTimeout(t) == IF t = "armed" THEN "cleared" ELSE t

Step(act, out, id, idx) == [act |-> act, out |-> out, id |-> id, idx |-> idx]

Running == fault = "none"

\* ------------------------------------------------------------- inputs
\* a key as the checks see it: its typeof, its length, its truthiness, and
\* whether it is NaN (which is equal to nothing, itself included)
StrKey(n) == [t |-> "string", len |-> n, truthy |-> n > 0, nan |-> FALSE]

NullKey == [t |-> "object", len |-> 0, truthy |-> FALSE, nan |-> FALSE]

NumKey == [t |-> "number", len |-> 0, truthy |-> TRUE, nan |-> FALSE]

NaNKey == [t |-> "number", len |-> 0, truthy |-> FALSE, nan |-> TRUE]

Keys == {StrKey(0), StrKey(1), StrKey(MaxKeyLen), StrKey(MaxKeyLen + 1),
         NullKey, NumKey, NaNKey}

\* the index of an error message that names none
NoIdx == -2

\* ------------------------------------------------------------- validation
\* `!key || typeof key !== "string"` of has / get / set / delete
keyRejected(key) == ~key.truthy \/ key.t # "string"

\* #validateKey(key, false): TRUE when the key is accepted
validateKey(key) ==
  ~(~key.truthy \/ key.t # "string" \/ key.len = 0 \/ key.len > MaxKeyLen)

\* the key check of the running revision: TRUE when the operation throws
keyThrows(key) ==
  IF revision = "part_002" THEN ~validateKey(key) ELSE keyRejected(key)

\* #validate / #validateValueSchema of handle db: TRUE when it returns without
\* throwing; `accepted` is the verdict of schema.safeParse
validate(db, accepted) == db.schema => accepted

\* ------------------------------------------------------------- #makeReq
\* the operation throws before anything is stored, armed or sent
Throw(out, idx) ==
  /\ step' = Step("operation", out, 0, idx)
  /\ UNCHANGED <<revision, readyState, connectPc, databases, requests, promise,
                 timeout, sent, nextId, fault>>

\* JSON.stringify({ ...PL, requestId, path: this.path }); the method and the
\* operation's own fields play no part in the correlation
Payload(db, requestId) == [requestId |-> requestId, path |-> db.path]

\* #makeReq that refuses a CLOSED or absent socket only
makeReqClosedOnly(db, json) ==
  IF readyState \in {"absent", "CLOSED"}
    THEN Throw("closed", NoIdx)
    ELSE /\ nextId \in Ids
         /\ requests' = requests \cup {nextId}
         /\ promise' = [promise EXCEPT ![nextId] = Pending]
         /\ nextId' = nextId + 1
         /\ sent' = Append(sent, Payload(db, nextId))
         /\ timeout' = [timeout EXCEPT ![nextId] = "armed"]
         /\ step' = Step("operation", "submitted", nextId, NoIdx)
         /\ UNCHANGED <<revision, readyState, connectPc, databases, fault>>

\* #makeReq whose requestId is not fresh: it is always the first one
makeReqReusesId(db, json) ==
  IF readyState # "OPEN"
    THEN Throw("closed", NoIdx)
    ELSE /\ nextId \in Ids
         /\ requests' = requests \cup {1}
         /\ promise' = [promise EXCEPT ![1] = Pending]
         /\ nextId' = nextId + 1
         /\ sent' = Append(sent, Payload(db, 1))
         /\ timeout' = [timeout EXCEPT ![1] = "armed"]
         /\ step' = Step("operation", "submitted", 1, NoIdx)
         /\ UNCHANGED <<revision, readyState, connectPc, databases, fault>>

\* #makeReq: throws unless the socket is OPEN; stores the request under a
\* fresh requestId, serialises and sends the payload, then arms the timer.
\* JSON.stringify throwing leaves the entry stored and the timer never set.
makeReq(db, json) ==
  IF readyState # "OPEN"
    THEN Throw("closed", NoIdx)
    ELSE /\ nextId \in Ids
         /\ requests' = requests \cup {nextId}
         /\ promise' = [promise EXCEPT ![nextId] = Pending]
         /\ nextId' = nextId + 1
         /\ IF json
              THEN /\ sent' = Append(sent, Payload(db, nextId))
                   /\ timeout' = [timeout EXCEPT ![nextId] = "armed"]
                   /\ step' = Step("operation", "submitted", nextId, NoIdx)
              ELSE /\ UNCHANGED <<sent, timeout>>
                   /\ step' = Step("operation", "send threw", nextId, NoIdx)
         /\ UNCHANGED <<revision, readyState, connectPc, databases, fault>>

\* ------------------------------------------------------------- operations
all(db) == makeReq(db, TRUE)

\* part_001 answers has by awaiting get, which checks the key again
has(db, key) ==
  IF keyThrows(key) THEN Throw("invalid key", NoIdx) ELSE makeReq(db, TRUE)

get(db, key) ==
  IF keyThrows(key) THEN Throw("invalid key", NoIdx) ELSE makeReq(db, TRUE)

\* a delete that puts its payload on the wire twice
deleteSendsTwice(db, key) ==
  IF keyThrows(key) THEN Throw("invalid key", NoIdx)
  ELSE IF readyState # "OPEN" THEN Throw("closed", NoIdx)
  ELSE /\ nextId \in Ids
       /\ requests' = requests \cup {nextId}
       /\ promise' = [promise EXCEPT ![nextId] = Pending]
       /\ nextId' = nextId + 1
       /\ sent' = Append(Append(sent, Payload(db, nextId)), Payload(db, nextId))
       /\ timeout' = [timeout EXCEPT ![nextId] = "armed"]
       /\ step' = Step("operation", "submitted", nextId, NoIdx)
       /\ UNCHANGED <<revision, readyState, connectPc, databases, fault>>

delete(db, key) ==
  IF keyThrows(key) THEN Throw("invalid key", NoIdx) ELSE makeReq(db, TRUE)

\* set that registers and sends the request before it asks the schema
setValidatesLate(db, key, value) ==
  IF keyThrows(key) THEN Throw("invalid key", NoIdx)
  ELSE IF readyState # "OPEN" THEN Throw("closed", NoIdx)
  ELSE IF ~validate(db, value.ok)
    THEN /\ nextId \in Ids
         /\ requests' = requests \cup {nextId}
         /\ promise' = [promise EXCEPT ![nextId] = Pending]
         /\ nextId' = nextId + 1
         /\ sent' = Append(sent, Payload(db, nextId))
         /\ timeout' = [timeout EXCEPT ![nextId] = "armed"]
         /\ step' = Step("operation", "schema", nextId, NoIdx)
         /\ UNCHANGED <<revision, readyState, connectPc, databases, fault>>
  ELSE makeReq(db, value.json)

\* database.ts and part_001 validate the value first, part_002 the key first
set(db, key, value) ==
  IF revision = "part_002"
    THEN IF keyThrows(key) THEN Throw("invalid key", NoIdx)
         ELSE IF ~validate(db, value.ok) THEN Throw("schema", NoIdx)
         ELSE makeReq(db, value.json)
    ELSE IF ~validate(db, value.ok) THEN Throw("schema", NoIdx)
         ELSE IF keyThrows(key) THEN Throw("invalid key", NoIdx)
         ELSE makeReq(db, value.json)

\* ------------------------------------------------------------- array operations
\* pop, shift, push, unshift and slice exist in part_002 only
pop(db, key) ==
  /\ revision = "part_002"
  /\ IF ~validateKey(key) THEN Throw("invalid key", NoIdx) ELSE makeReq(db, TRUE)

shift(db, key) ==
  /\ revision = "part_002"
  /\ IF ~validateKey(key) THEN Throw("invalid key", NoIdx) ELSE makeReq(db, TRUE)

\* a push that asks the schema about value itself
pushValidatesValue(db, key, value) ==
  /\ revision = "part_002"
  /\ IF ~validateKey(key) THEN Throw("invalid key", NoIdx)
     ELSE IF ~validate(db, value.ok) THEN Throw("schema", NoIdx)
     ELSE makeReq(db, value.json)

\* the schema is asked about [value], not about value
push(db, key, value) ==
  /\ revision = "part_002"
  /\ IF ~validateKey(key) THEN Throw("invalid key", NoIdx)
     ELSE IF ~validate(db, value.okWrapped) THEN Throw("schema", NoIdx)
     ELSE makeReq(db, value.json)

unshift(db, key, value) ==
  /\ revision = "part_002"
  /\ IF ~validateKey(key) THEN Throw("invalid key", NoIdx)
     ELSE IF ~validate(db, value.okWrapped) THEN Throw("schema", NoIdx)
     ELSE makeReq(db, value.json)

\* a slice bound: whether Number.isInteger holds of it and whether it is
\* truthy (0, NaN and undefined are not)
Bounds == [integer : BOOLEAN, truthy : BOOLEAN]

slice(db, key, start, end) ==
  /\ revision = "part_002"
  /\ IF ~validateKey(key) THEN Throw("invalid key", NoIdx)
     ELSE IF ~start.integer THEN Throw("start", NoIdx)
     ELSE IF end.truthy /\ ~end.integer THEN Throw("end", NoIdx)
     ELSE makeReq(db, TRUE)

\* ------------------------------------------------------------- batch operations
\* Array.prototype.indexOf, zero-based: strict equality, so NaN is never found
indexOf(seq, x) ==
  IF x.nan \/ ~(\E i \in 1..Len(seq) : seq[i] = x)
    THEN -1
    ELSE (CHOOSE i \in 1..Len(seq) :
            seq[i] = x /\ \A j \in 1..(i - 1) : seq[j] # x) - 1

\* position (from 1) of the first element the check rejects, 0 when none
firstBad(seq, Bad(_)) ==
  IF \E i \in 1..Len(seq) : Bad(seq[i])
    THEN CHOOSE i \in 1..Len(seq) : Bad(seq[i]) /\ \A j \in 1..(i - 1) : ~Bad(seq[j])
    ELSE 0

\* the index named by the error of a batch operation: part_001 counts, the
\* others look the element up again with indexOf
reportedIndex(seq, i) ==
  IF revision = "part_001" THEN i - 1 ELSE indexOf(seq, seq[i])

\* a batch argument: an array of items, or something that is no array
Batch(items) == [isArray |-> TRUE, items |-> items]

NotAnArray == [isArray |-> FALSE, items |-> <<>>]

getMany(db, keys) ==
  IF ~keys.isArray THEN Throw("not an array", NoIdx)
  ELSE LET i == firstBad(keys.items, keyThrows)
       IN IF i # 0 THEN Throw("invalid key", reportedIndex(keys.items, i))
          ELSE makeReq(db, TRUE)

\* database.ts loops with `for (const key in keys)`: key is the index as a
\* string, "0", "1", ..., which the check never rejects
deleteMany(db, keys) ==
  IF ~keys.isArray THEN Throw("not an array", NoIdx)
  ELSE LET i == IF revision = "database.ts" THEN 0
                ELSE firstBad(keys.items, keyThrows)
       IN IF i # 0 THEN Throw("invalid key", reportedIndex(keys.items, i))
          ELSE makeReq(db, TRUE)

\* a value as the operations see it is [ok, okWrapped, json]: whether the
\* schema accepts it, whether the schema accepts the one-element array
\* holding it, and whether JSON.stringify can serialise it (it throws on a
\* BigInt or a cycle)
GoodValue == [ok |-> TRUE, okWrapped |-> TRUE, json |-> TRUE]

RejectedValue == [ok |-> FALSE, okWrapped |-> FALSE, json |-> TRUE]

CyclicValue == [ok |-> TRUE, okWrapped |-> TRUE, json |-> FALSE]

\* an element of setMany's input: null, an object lacking key or value, or
\* {key, value}
Element(shape, key, value) ==
  [shape |-> shape, key |-> key, value |-> value, nan |-> FALSE]

\* what the loop body of setMany throws on element e: "ok" when nothing
elementError(db, e) ==
  IF e.shape = "null"
    THEN IF revision = "part_001" THEN "type error" ELSE "element"
  ELSE IF e.shape = "noKV" THEN "element"
  ELSE IF keyThrows(e.key) THEN "key"
  ELSE IF ~validate(db, e.value.ok) THEN "value"
  ELSE "ok"

setMany(db, data) ==
  IF ~data.isArray THEN Throw("not an array", NoIdx)
  ELSE LET Bad(e) == elementError(db, e) # "ok"
           i == firstBad(data.items, Bad)
       IN IF i # 0
            THEN Throw(elementError(db, data.items[i]),
                       IF elementError(db, data.items[i]) = "type error"
                         THEN NoIdx ELSE reportedIndex(data.items, i))
            ELSE makeReq(db, \A j \in 1..Len(data.items) : data.items[j].value.json)

\* ------------------------------------------------------------- connection
\* a connect() that does not wait for the 'open' event
connectNoAwait ==
  /\ readyState \in {"absent", "CLOSED"}
  /\ readyState' = "CONNECTING"
  /\ connectPc' = "done"
  /\ step' = Step("connect", "suspended", 0, NoIdx)
  /\ UNCHANGED <<revision, databases, requests, promise, timeout, sent, nextId,
                 fault>>

\* connect(): a new WebSocket, then suspended until its 'open' event.  The
\* host calls it on the manager it has constructed, and again after the
\* socket has closed; the handles and manager.requests outlive the socket.
connect ==
  /\ readyState \in {"absent", "CLOSED"}
  /\ readyState' = "CONNECTING"
  /\ connectPc' = "awaitOpen"
  /\ step' = Step("connect", "suspended", 0, NoIdx)
  /\ UNCHANGED <<revision, databases, requests, promise, timeout, sent, nextId,
                 fault>>

\* the socket reports 'open': connect() resumes and installs the message,
\* error and close handlers before any other event is delivered
socketOpen ==
  /\ readyState = "CONNECTING"
  /\ connectPc = "awaitOpen"
  /\ readyState' = "OPEN"
  /\ connectPc' = "done"
  /\ step' = Step("open", "connected", 0, NoIdx)
  /\ UNCHANGED <<revision, databases, requests, promise, timeout, sent, nextId,
                 fault>>

\* the connection attempt fails: the socket emits 'error' while connect()
\* has not yet installed an error handler, which the emitter raises as an
\* exception; connect() stays suspended
socketFails ==
  /\ readyState = "CONNECTING"
  /\ readyState' = "CLOSED"
  /\ fault' = "uncaught"
  /\ step' = Step("error", "threw", 0, NoIdx)
  /\ UNCHANGED <<revision, connectPc, databases, requests, promise, timeout, sent,
                 nextId>>

\* the error handler: this.emit("error", err), to a host that listens.  The
\* socket stays as it is or starts closing.
socketError(rs) ==
  /\ connectPc = "done"
  /\ readyState \in {"OPEN", "CLOSING"}
  /\ rs \in {readyState, "CLOSING"}
  /\ readyState' = rs
  /\ step' = Step("error", "emitted", 0, NoIdx)
  /\ UNCHANGED <<revision, connectPc, databases, requests, promise, timeout, sent,
                 nextId, fault>>

\* the closing handshake starts (either side)
socketClosing ==
  /\ connectPc = "done"
  /\ readyState = "OPEN"
  /\ readyState' = "CLOSING"
  /\ step' = Step("closing", "closing", 0, NoIdx)
  /\ UNCHANGED <<revision, connectPc, databases, requests, promise, timeout, sent,
                 nextId, fault>>

\* a close handler that also fails every request in flight
socketCloseRejectsAll ==
  /\ connectPc = "done"
  /\ readyState \in {"OPEN", "CLOSING"}
  /\ readyState' = "CLOSED"
  /\ requests' = {}
  /\ promise' = [id \in Ids |-> IF id \in requests THEN Settle(promise[id], TimedOut)
                                 ELSE promise[id]]
  /\ timeout' = [id \in Ids |-> IF id \in requests THEN clearTimeout(timeout[id])
                                 ELSE timeout[id]]
  /\ step' = Step("close", "emitted", 0, NoIdx)
  /\ UNCHANGED <<revision, connectPc, databases, sent, nextId, fault>>

\* the close handler: this.emit("disconnected", this.socketAddress)
socketClose ==
  /\ connectPc = "done"
  /\ readyState \in {"OPEN", "CLOSING"}
  /\ readyState' = "CLOSED"
  /\ step' = Step("close", "emitted", 0, NoIdx)
  /\ UNCHANGED <<revision, connectPc, databases, requests, promise, timeout, sent,
                 nextId, fault>>

\* the two handles a host asks for: an unvalidated database and one with a
\* schema
PlainDb == [path |-> "a", schema |-> FALSE]

TypedDb == [path |-> "b", schema |-> TRUE]

Databases == {PlainDb, TypedDb}

\* a createDatabase that refuses only a socket that is absent or CLOSED
createDatabaseUnlessClosed(db) ==
  IF readyState \in {"absent", "CLOSED"}
    THEN /\ step' = Step("createDatabase", "not open", 0, NoIdx)
         /\ UNCHANGED <<revision, readyState, connectPc, databases, requests,
                        promise, timeout, sent, nextId, fault>>
    ELSE /\ databases' = databases \cup {db}
         /\ step' = Step("createDatabase", "created", 0, NoIdx)
         /\ UNCHANGED <<revision, readyState, connectPc, requests, promise,
                        timeout, sent, nextId, fault>>

\* createDatabase(path, schema?): throws unless the socket is OPEN
createDatabase(db) ==
  IF readyState # "OPEN"
    THEN /\ step' = Step("createDatabase", "not open", 0, NoIdx)
         /\ UNCHANGED <<revision, readyState, connectPc, databases, requests,
                        promise, timeout, sent, nextId, fault>>
    ELSE /\ databases' = databases \cup {db}
         /\ step' = Step("createDatabase", "created", 0, NoIdx)
         /\ UNCHANGED <<revision, readyState, connectPc, requests, promise,
                        timeout, sent, nextId, fault>>

\* ------------------------------------------------------------- dispatch
\* an inbound message as JSON.parse sees it: text that is no JSON, the JSON
\* null, a JSON number / string / boolean, or an object with or without
\* requestId, data and error
Messages ==
  {[json |-> j, requestId |-> Undefined, data |-> "absent", error |-> "absent"] :
      j \in {"invalid", "null", "primitive"}}
  \cup [json : {"object"}, requestId : Ids \cup {UnknownId, Undefined},
        data : Data \cup {"absent"}, error : ErrDesc \cup {"absent"}]

\* JSON.stringify(response) of an object envelope
stringify(m) == [requestId |-> m.requestId, data |-> m.data, error |-> m.error]

\* a message handler without `if (!request) return`: it reads .resolve of
\* undefined, and one that forgets clearTimeout
messageHandlerNoGuard(m) ==
  LET rid == IF m.json = "object" THEN m.requestId ELSE Undefined
  IN IF m.json \in {"invalid", "null"} \/ rid \notin requests
       THEN /\ fault' = "uncaught"
            /\ step' = Step("message", "threw", rid, NoIdx)
            /\ UNCHANGED <<revision, readyState, connectPc, databases, requests,
                           promise, timeout, sent, nextId>>
       ELSE /\ promise' = [promise EXCEPT ![rid] =
                  Settle(@, IF m.error # "absent"
                              THEN ServerError(stringify(m))
                              ELSE Resolved(IF m.data = "absent"
                                              THEN "undefined" ELSE m.data))]
            /\ timeout' = [timeout EXCEPT ![rid] = clearTimeout(@)]
            /\ requests' = requests \ {rid}
            /\ step' = Step("message",
                            IF m.error # "absent" THEN "rejected" ELSE "resolved",
                            rid, NoIdx)
            /\ UNCHANGED <<revision, readyState, connectPc, databases, sent,
                           nextId, fault>>

messageHandlerKeepsTimer(m) ==
  LET rid == IF m.json = "object" THEN m.requestId ELSE Undefined
  IN IF m.json \in {"invalid", "null"}
       THEN /\ fault' = "uncaught"
            /\ step' = Step("message", "threw", NoIdx, NoIdx)
            /\ UNCHANGED <<revision, readyState, connectPc, databases, requests,
                           promise, timeout, sent, nextId>>
       ELSE IF rid \notin requests
         THEN /\ step' = Step("message", "discarded", rid, NoIdx)
              /\ UNCHANGED <<revision, readyState, connectPc, databases, requests,
                             promise, timeout, sent, nextId, fault>>
         ELSE /\ promise' = [promise EXCEPT ![rid] =
                    Settle(@, IF m.error # "absent"
                                THEN ServerError(stringify(m))
                                ELSE Resolved(IF m.data = "absent"
                                                THEN "undefined" ELSE m.data))]
              /\ requests' = requests \ {rid}
              /\ step' = Step("message",
                              IF m.error # "absent" THEN "rejected" ELSE "resolved",
                              rid, NoIdx)
              /\ UNCHANGED <<revision, readyState, connectPc, databases, timeout,
                             sent, nextId, fault>>

\* a message handler that settles the oldest entry of the table, whichever
\* request the response names
messageHandlerOldestFirst(m) ==
  LET rid == IF m.json = "object" THEN m.requestId ELSE Undefined
      old == CHOOSE i \in requests : \A j \in requests : i <= j
  IN IF m.json \in {"invalid", "null"}
       THEN /\ fault' = "uncaught"
            /\ step' = Step("message", "threw", NoIdx, NoIdx)
            /\ UNCHANGED <<revision, readyState, connectPc, databases, requests,
                           promise, timeout, sent, nextId>>
       ELSE IF rid \notin requests
         THEN /\ step' = Step("message", "discarded", rid, NoIdx)
              /\ UNCHANGED <<revision, readyState, connectPc, databases, requests,
                             promise, timeout, sent, nextId, fault>>
         ELSE /\ promise' = [promise EXCEPT ![old] =
                    Settle(@, IF m.error # "absent"
                                THEN ServerError(stringify(m))
                                ELSE Resolved(IF m.data = "absent"
                                                THEN "undefined" ELSE m.data))]
              /\ timeout' = [timeout EXCEPT ![old] = clearTimeout(@)]
              /\ requests' = requests \ {old}
              /\ step' = Step("message",
                              IF m.error # "absent" THEN "rejected" ELSE "resolved",
                              rid, NoIdx)
              /\ UNCHANGED <<revision, readyState, connectPc, databases, sent,
                             nextId, fault>>

\* the message handler of connect(): JSON.parse throws on text that is no
\* JSON, and reading requestId of null throws
messageHandler(m) ==
  IF m.json \in {"invalid", "null"}
    THEN /\ fault' = "uncaught"
         /\ step' = Step("message", "threw", NoIdx, NoIdx)
         /\ UNCHANGED <<revision, readyState, connectPc, databases, requests,
                        promise, timeout, sent, nextId>>
    ELSE LET rid == IF m.json = "object" THEN m.requestId ELSE Undefined
         IN IF rid \notin requests
              THEN /\ step' = Step("message", "discarded", rid, NoIdx)
                   /\ UNCHANGED <<revision, readyState, connectPc, databases,
                                  requests, promise, timeout, sent, nextId, fault>>
              ELSE /\ promise' = [promise EXCEPT ![rid] =
                         Settle(@, IF m.error # "absent"
                                     THEN ServerError(stringify(m))
                                     ELSE Resolved(IF m.data = "absent"
                                                     THEN "undefined" ELSE m.data))]
                   /\ timeout' = [timeout EXCEPT ![rid] = clearTimeout(@)]
                   /\ requests' = requests \ {rid}
                   /\ step' = Step("message",
                                   IF m.error # "absent" THEN "rejected" ELSE "resolved",
                                   rid, NoIdx)
                   /\ UNCHANGED <<revision, readyState, connectPc, databases, sent,
                                  nextId, fault>>

\* a message arrives on the socket
onMessage(m) ==
  /\ connectPc = "done"
  /\ readyState \in {"OPEN", "CLOSING"}
  /\ messageHandler(m)

\* a timer callback that empties the table and stops every other timer
timeoutCallbackClearsAll(id) ==
  /\ requests' = {}
  /\ promise' = [promise EXCEPT ![id] = Settle(@, TimedOut)]
  /\ timeout' = [i \in Ids |-> IF i = id THEN "fired" ELSE clearTimeout(timeout[i])]
  /\ step' = Step("timeout", "rejected", id, NoIdx)
  /\ UNCHANGED <<revision, readyState, connectPc, databases, sent, nextId, fault>>

\* the timer callback of #makeReq; part_001 only rejects
timeoutCallback(id) ==
  /\ requests' = IF revision = "part_001" THEN requests ELSE requests \ {id}
  /\ promise' = [promise EXCEPT ![id] = Settle(@, TimedOut)]
  /\ timeout' = [timeout EXCEPT ![id] = "fired"]
  /\ step' = Step("timeout", "rejected", id, NoIdx)
  /\ UNCHANGED <<revision, readyState, connectPc, databases, sent, nextId, fault>>

\* 2500 ms after #makeReq armed it, the timer of request id fires
onTimeout(id) ==
  /\ timeout[id] = "armed"
  /\ timeoutCallback(id)

\* ------------------------------------------------------------- observed calls
\* no operation call observed
NoCall == [op |-> "none", key |-> NullKey, value |-> GoodValue]

\* the host has just called operation op with this key and value
Call(op, key, value) == [op |-> op, key |-> key, value |-> value]

Unobserved == call' = NoCall

\* ------------------------------------------------------------- specification
Init ==
  /\ revision \in Revisions
  /\ readyState = "absent"
  /\ connectPc = "idle"
  /\ databases = {}
  /\ requests = {}
  /\ promise = [id \in Ids |-> NoPromise]
  /\ timeout = [id \in Ids |-> "unset"]
  /\ sent = <<>>
  /\ nextId = 1
  /\ fault = "none"
  /\ step = Step("init", "constructed", 0, NoIdx)
  /\ call = NoCall

\* Spec runs a host with one handle, without schema, and calls the
\* operations with valid inputs: a key of length 1, a value (serialisable or
\* not), batches of one element.  OpsSpec below has both handles and calls
\* the operations with invalid inputs too.
ValidKeys == {StrKey(1)}

ValidValues == {GoodValue, CyclicValue}

ValidKeyBatches == {Batch(<<k>>) : k \in ValidKeys}

ValidElementBatches == {Batch(<<Element("kv", k, v)>>) : k \in ValidKeys, v \in ValidValues}

ValidBounds == {[integer |-> TRUE, truthy |-> TRUE]}

Next ==
  \/ Running /\ Unobserved /\ connect
  \/ Running /\ Unobserved /\ socketOpen
  \/ Running /\ Unobserved /\ socketFails
  \/ \E rs \in {"OPEN", "CLOSING"} : Running /\ Unobserved /\ socketError(rs)
  \/ Running /\ Unobserved /\ socketClosing
  \/ Running /\ Unobserved /\ socketClose
  \/ \E db \in {PlainDb} : Running /\ Unobserved /\ createDatabase(db)
  \/ \E m \in Messages : Running /\ Unobserved /\ onMessage(m)
  \/ \E id \in Ids : Running /\ Unobserved /\ onTimeout(id)
  \/ \E db \in databases : Running /\ Unobserved /\ all(db)
  \/ \E db \in databases, key \in ValidKeys : Running /\ Unobserved /\ has(db, key)
  \/ \E db \in databases, key \in ValidKeys : Running /\ Unobserved /\ get(db, key)
  \/ \E db \in databases, key \in ValidKeys : Running /\ Unobserved /\ delete(db, key)
  \/ \E db \in databases, key \in ValidKeys, value \in ValidValues :
       Running /\ Unobserved /\ set(db, key, value)
  \/ \E db \in databases, keys \in ValidKeyBatches : Running /\ Unobserved /\ getMany(db, keys)
  \/ \E db \in databases, keys \in ValidKeyBatches : Running /\ Unobserved /\ deleteMany(db, keys)
  \/ \E db \in databases, data \in ValidElementBatches : Running /\ Unobserved /\ setMany(db, data)
  \/ \E db \in databases, key \in ValidKeys : Running /\ Unobserved /\ pop(db, key)
  \/ \E db \in databases, key \in ValidKeys : Running /\ Unobserved /\ shift(db, key)
  \/ \E db \in databases, key \in ValidKeys, value \in ValidValues :
       Running /\ Unobserved /\ push(db, key, value)
  \/ \E db \in databases, key \in ValidKeys, value \in ValidValues :
       Running /\ Unobserved /\ unshift(db, key, value)
  \/ \E db \in databases, key \in ValidKeys, start \in ValidBounds, end \in ValidBounds :
       Running /\ Unobserved /\ slice(db, key, start, end)

Spec == Init /\ [][Next]_vars

\* ------------------------------------------------------------- OpsSpec
\* OpsSpec calls every operation with invalid inputs too, on a manager that
\* issues at most MaxOpsReq requests, none of which is answered.
OtherValues == {[ok |-> FALSE, okWrapped |-> TRUE, json |-> TRUE],
                [ok |-> TRUE, okWrapped |-> FALSE, json |-> TRUE]}

Values == {GoodValue, RejectedValue, CyclicValue} \cup OtherValues

SeqsUpTo(S, n) == UNION {[1..k -> S] : k \in 0..n}

BatchKeys == {StrKey(1), StrKey(MaxKeyLen + 1), NaNKey}

KeyBatches == {NotAnArray} \cup {Batch(b) : b \in SeqsUpTo(BatchKeys, MaxBatch)}

Elements ==
  {Element("null", NullKey, GoodValue), Element("noKV", NullKey, GoodValue),
   Element("kv", StrKey(MaxKeyLen + 1), GoodValue)}
  \cup {Element("kv", StrKey(1), v) : v \in {GoodValue, RejectedValue}}

ElementBatches == {NotAnArray} \cup {Batch(b) : b \in SeqsUpTo(Elements, MaxBatch)}

\* a call is taken unless it would issue more than MaxOpsReq requests
OpsCap == nextId' <= MaxOpsReq + 1

OpsNext ==
  \/ Running /\ Unobserved /\ connect
  \/ Running /\ Unobserved /\ socketOpen
  \/ Running /\ Unobserved /\ socketClose
  \/ \E db \in Databases : Running /\ Unobserved /\ createDatabase(db)
  \/ \E id \in Ids : Running /\ Unobserved /\ onTimeout(id)
  \/ \E db \in databases : Running /\ Unobserved /\ all(db) /\ OpsCap
  \/ \E db \in databases, key \in Keys : Running /\ Unobserved /\ has(db, key) /\ OpsCap
  \/ \E db \in databases, key \in Keys : Running /\ Unobserved /\ get(db, key) /\ OpsCap
  \/ \E db \in databases, key \in Keys : Running /\ Unobserved /\ delete(db, key) /\ OpsCap
  \/ \E db \in databases, key \in Keys, value \in Values :
       Running /\ Unobserved /\ set(db, key, value) /\ OpsCap
  \/ \E db \in databases, keys \in KeyBatches : Running /\ Unobserved /\ getMany(db, keys) /\ OpsCap
  \/ \E db \in databases, keys \in KeyBatches : Running /\ Unobserved /\ deleteMany(db, keys) /\ OpsCap
  \/ \E db \in databases, data \in ElementBatches : Running /\ Unobserved /\ setMany(db, data) /\ OpsCap
  \/ \E db \in databases, key \in Keys : Running /\ Unobserved /\ pop(db, key) /\ OpsCap
  \/ \E db \in databases, key \in Keys : Running /\ Unobserved /\ shift(db, key) /\ OpsCap
  \/ \E db \in databases, key \in Keys, value \in Values :
       Running /\ Unobserved /\ push(db, key, value) /\ OpsCap
  \/ \E db \in databases, key \in Keys, value \in Values :
       Running /\ Unobserved /\ unshift(db, key, value) /\ OpsCap
  \/ \E db \in databases, key \in Keys, start \in Bounds, end \in Bounds :
       Running /\ Unobserved /\ slice(db, key, start, end) /\ OpsCap

OpsSpec == Init /\ [][OpsNext]_vars

\* ------------------------------------------------------------- KeySpec
\* KeySpec observes the calls of has, get and delete with valid keys on both
\* handles; the server answers in any order, with distinguishable data, and
\* every armed timer fires unless it is cleared first.
KeyData == {"d1", "d2"}

KeyMessages ==
  [json : {"object"}, requestId : Ids, data : KeyData, error : {"absent"}]
  \cup [json : {"object"}, requestId : Ids, data : {"absent"}, error : ErrDesc]

KeyKeys == {StrKey(1), StrKey(MaxKeyLen)}

KeyNext ==
  \/ Running /\ Unobserved /\ connect
  \/ Running /\ Unobserved /\ socketOpen
  \/ Running /\ Unobserved /\ socketClose
  \/ \E db \in Databases : Running /\ Unobserved /\ createDatabase(db)
  \/ \E m \in KeyMessages : Running /\ Unobserved /\ onMessage(m)
  \/ \E id \in Ids : Running /\ Unobserved /\ onTimeout(id)
  \/ \E db \in databases, key \in KeyKeys :
       Running /\ has(db, key) /\ call' = Call("has", key, GoodValue)
  \/ \E db \in databases, key \in KeyKeys :
       Running /\ get(db, key) /\ call' = Call("get", key, GoodValue)
  \/ \E db \in databases, key \in KeyKeys :
       Running /\ delete(db, key) /\ call' = Call("delete", key, GoodValue)

\* setTimeout: a timer that stays armed fires
KeySpec ==
  /\ Init /\ [][KeyNext]_vars
  /\ \A id \in Ids : WF_vars(Running /\ Unobserved /\ onTimeout(id))

\* ------------------------------------------------------------- PushSpec
\* PushSpec observes the calls of push and unshift, on both handles, with
\* values the schema judges differently bare and wrapped in an array.
PushKeys == {StrKey(0), StrKey(1)}

PushNext ==
  \/ Running /\ Unobserved /\ connect
  \/ Running /\ Unobserved /\ socketOpen
  \/ Running /\ Unobserved /\ socketClose
  \/ \E db \in Databases : Running /\ Unobserved /\ createDatabase(db)
  \/ \E id \in Ids : Running /\ Unobserved /\ onTimeout(id)
  \/ \E db \in databases, key \in PushKeys, value \in Values :
       Running /\ push(db, key, value) /\ call' = Call("push", key, value)
  \/ \E db \in databases, key \in PushKeys, value \in Values :
       Running /\ unshift(db, key, value) /\ call' = Call("unshift", key, value)

PushSpec == Init /\ [][PushNext]_vars

\* ------------------------------------------------------------- OrderSpec
\* OrderSpec runs #makeReq statement by statement: requests.set, then
\* send(JSON.stringify(...)), then setTimeout.  The call runs to completion:
\* no handler and no other call runs while one is between two statements.
MidCall == step.act = "makeReq" /\ step.out \in {"registered", "sent"}

\* the open check, the fresh requestId, the promise and requests.set
makeReqRegister(db) ==
  /\ ~MidCall
  /\ IF readyState # "OPEN"
       THEN Throw("closed", NoIdx)
       ELSE /\ nextId \in Ids
            /\ requests' = requests \cup {nextId}
            /\ promise' = [promise EXCEPT ![nextId] = Pending]
            /\ nextId' = nextId + 1
            /\ step' = Step("makeReq", "registered", nextId, NoIdx)
            /\ UNCHANGED <<revision, readyState, connectPc, databases, timeout,
                           sent, fault>>

\* webSocket.send(JSON.stringify(payload)); JSON.stringify throwing ends
\* the call
makeReqSend(db, json) ==
  /\ step.act = "makeReq" /\ step.out = "registered"
  /\ IF json
       THEN /\ sent' = Append(sent, Payload(db, step.id))
            /\ step' = Step("makeReq", "sent", step.id, NoIdx)
       ELSE /\ UNCHANGED sent
            /\ step' = Step("makeReq", "send threw", step.id, NoIdx)
  /\ UNCHANGED <<revision, readyState, connectPc, databases, requests, promise,
                 timeout, nextId, fault>>

\* request.timeout = setTimeout(..., 2500); return request.promise
makeReqArm ==
  /\ step.act = "makeReq" /\ step.out = "sent"
  /\ timeout' = [timeout EXCEPT ![step.id] = "armed"]
  /\ step' = Step("makeReq", "armed", step.id, NoIdx)
  /\ UNCHANGED <<revision, readyState, connectPc, databases, requests, promise,
                 sent, nextId, fault>>

OrderNext ==
  \/ Running /\ Unobserved /\ ~MidCall /\ connect
  \/ Running /\ Unobserved /\ ~MidCall /\ socketOpen
  \/ Running /\ Unobserved /\ ~MidCall /\ socketClose
  \/ \E db \in {PlainDb} : Running /\ Unobserved /\ ~MidCall /\ createDatabase(db)
  \/ \E m \in KeyMessages : Running /\ Unobserved /\ ~MidCall /\ onMessage(m)
  \/ \E id \in Ids : Running /\ Unobserved /\ ~MidCall /\ onTimeout(id)
  \/ \E db \in databases : Running /\ Unobserved /\ makeReqRegister(db)
  \/ \E db \in databases, json \in BOOLEAN :
       Running /\ Unobserved /\ makeReqSend(db, json)
  \/ Running /\ Unobserved /\ makeReqArm

OrderSpec == Init /\ [][OrderNext]_vars

\* ------------------------------------------------------------- claims
Issued == {id \in Ids : id < nextId}

\* what the caller of the operation that issued id has observed: the
\* operation returns request.promise, unless #makeReq threw while sending,
\* which rejects the call with that exception
CallerObserves(id) ==
  IF timeout[id] = "unset" THEN "threw"
  ELSE IF promise[id].state = "pending" THEN "pending"
  ELSE IF promise[id] = TimedOut THEN "timeout"
  ELSE "response"

\* the requestId the handler looks up for message m (JSON null and text that
\* is no JSON never get that far)
RequestIdOf(m) == IF m.json = "object" THEN m.requestId ELSE Undefined

Parses(m) == m.json \notin {"invalid", "null"}

\* C1: a request's settlement takes effect at most once: a settled promise
\* never changes again (so it is never both resolved and rejected), and an
\* id that has left manager.requests never returns to be removed again.
C1_SettledAtMostOnce ==
  [][\A id \in Ids :
       /\ promise[id].state \in {"resolved", "rejected"} => promise'[id] = promise[id]
       /\ id \in Issued /\ id \notin requests => id \notin requests']_vars

\* a duplicate response has just been handled for a request that an earlier
\* response resolved, and another request has timed out
C1_Witness ==
  /\ step.act = "message" /\ step.out = "discarded" /\ step.id \in Issued
  /\ promise[step.id].state = "resolved"
  /\ \E id \in Issued : promise[id] = TimedOut

\* C2: every call that passed validation and the open-socket check shows
\* its caller nothing but the matching response or the timeout failure (and
\* while it is pending its timer is armed).
C2_SettlesByResponseOrTimeout ==
  \A id \in Issued : CallerObserves(id) \in {"pending", "response", "timeout"}

\* C3: when the expiry timer of a request fires, its caller observes the
\* timeout rejection and the id is absent from manager.requests right after
\* the callback.
C3_TimeoutRejectsAndRemoves ==
  [][\A id \in Ids :
       step'.act = "timeout" /\ step'.id = id /\ promise[id].state = "pending"
         => promise'[id] = TimedOut /\ id \notin requests']_vars

\* C4: a response whose requestId has no entry in manager.requests changes
\* nothing: not the table, no promise, no timer, and it raises no exception.
C4_UnmatchedResponseDiscarded ==
  [][step'.act = "message" =>
       \A m \in Messages :
         (/\ Parses(m) /\ RequestIdOf(m) \notin requests
          /\ step'.id = RequestIdOf(m) /\ onMessage(m))
         => UNCHANGED <<requests, promise, timeout, sent, fault>>]_vars

\* a response has just been discarded for an id whose request had timed out
C4_Witness ==
  /\ step.act = "message" /\ step.out = "discarded" /\ step.id \in Issued
  /\ promise[step.id] = TimedOut
  /\ requests # {}

\* C5: a response carrying exactly one of data and error, whose requestId
\* names an entry still pending, resolves the promise with that data or
\* rejects it with an error made from the envelope; the timer is cancelled
\* and the entry removed.
C5_MatchedResponseSettles ==
  [][step'.act = "message" => \A m \in Messages :
       (/\ m.json = "object" /\ m.requestId \in requests
        /\ promise[m.requestId].state = "pending"
        /\ (m.data = "absent") # (m.error = "absent")
        /\ onMessage(m))
       => /\ m.error = "absent" => promise'[m.requestId] = Resolved(m.data)
          /\ m.error # "absent" =>
               /\ promise'[m.requestId].state = "rejected"
               /\ promise'[m.requestId].response.error = m.error
               /\ promise'[m.requestId].response.requestId = m.requestId
          /\ timeout[m.requestId] = "armed" => timeout'[m.requestId] = "cleared"
          /\ timeout'[m.requestId] # "armed"
          /\ m.requestId \notin requests']_vars

\* one request resolved with the server's data and one rejected with the
\* server's error, both timers cancelled, both entries gone
C5_Witness ==
  \E i, j \in Issued :
    /\ promise[i] = Resolved("d1") /\ timeout[i] = "cleared" /\ i \notin requests
    /\ promise[j].state = "rejected" /\ promise[j].response.error = "e1"
    /\ timeout[j] = "cleared" /\ j \notin requests

\* C6: a message that names a pending entry but carries neither data nor
\* error leaves the entry, its promise and its timer as they were.
C6_ShapelessMessageDiscarded ==
  [][step'.act = "message" => \A m \in Messages :
       (/\ m.json = "object" /\ m.requestId \in requests
        /\ m.data = "absent" /\ m.error = "absent"
        /\ onMessage(m))
       => UNCHANGED <<requests, promise, timeout>>]_vars

\* C7: a message that is no response envelope is discarded: the handler
\* raises nothing and the table is unchanged.
C7_MalformedMessageDiscarded ==
  [][step'.act = "message" => \A m \in Messages :
       (m.json # "object" \/ m.requestId = Undefined) /\ onMessage(m)
         => fault' = "none" /\ UNCHANGED <<requests, promise, timeout>>]_vars

\* C8: an operation called while the socket is not OPEN throws at once:
\* nothing is stored, armed or sent.
C8_NotOpenFailsImmediately ==
  [][step'.act = "operation" /\ readyState # "OPEN"
       => /\ step'.out \notin {"submitted", "send threw"}
          /\ UNCHANGED <<requests, promise, timeout, sent, nextId>>]_vars

\* an operation has just thrown on the connecting socket of a reconnect
\* while an earlier request is still in flight
C8_Witness ==
  /\ step.act = "operation" /\ step.out = "closed"
  /\ readyState = "CONNECTING"
  /\ \E id \in requests : timeout[id] = "armed"

\* the ways an operation's input validation fails
ValidationErrors ==
  {"invalid key", "schema", "not an array", "element", "key", "value",
   "type error", "start", "end"}

\* C9: an operation whose input validation fails stores no entry, arms no
\* timer and sends nothing.
C9_InvalidInputSubmitsNothing ==
  [][step'.act = "operation" /\ step'.out \in ValidationErrors
       => UNCHANGED <<requests, promise, timeout, sent, nextId>>]_vars

\* a validation failure on an open socket, one request being in flight
C9_Witness ==
  /\ step.act = "operation" /\ step.out \in ValidationErrors
  /\ readyState = "OPEN"
  /\ \E id \in requests : timeout[id] = "armed"

\* C10: a socket error or close event changes no entry, no promise and no
\* timer; after the close a pending request is settled by its own timer
\* only.
C10_SocketEventsLeaveRequests ==
  [][/\ step'.act \in {"error", "closing", "close"}
          => UNCHANGED <<requests, promise, timeout>>
     /\ \A id \in Ids :
          readyState = "CLOSED" /\ promise[id].state = "pending"
            /\ promise'[id] # promise[id]
          => step'.act = "timeout" /\ step'.id = id /\ promise'[id] = TimedOut]_vars

\* the socket has closed with a request in flight, which then timed out
C10_Witness ==
  /\ readyState = "CLOSED"
  /\ step.act = "timeout" /\ promise[step.id] = TimedOut
  /\ \E id \in requests : promise[id].state = "pending" /\ timeout[id] = "armed"

\* C11: createDatabase returns a handle exactly when the socket is OPEN; in
\* every other state it throws and no handle comes to exist.  Every payload
\* on the wire carries the path of a handle this manager returned.
C11_CreateDatabaseNeedsOpen ==
  [][step'.act = "createDatabase" =>
       /\ (step'.out = "created") <=> (readyState = "OPEN")
       /\ readyState # "OPEN" => databases' = databases
       /\ readyState = "OPEN" => \E db \in Databases : databases' = databases \cup {db}
       /\ \A i \in 1..Len(sent') : \E db \in databases' : db.path = sent'[i].path]_vars

\* createDatabase has just thrown on a closing socket, after an earlier call
\* had returned a handle that has a request in flight
C11_Witness ==
  /\ step.act = "createDatabase" /\ step.out = "not open"
  /\ readyState = "CLOSING"
  /\ databases # {} /\ requests # {}

C13_OtherEntriesUntouched ==
  [][step'.act \in {"message", "timeout"} =>
       \A id \in Ids : id # step'.id =>
         /\ promise'[id] = promise[id]
         /\ timeout'[id] = timeout[id]
         /\ (id \in requests') <=> (id \in requests)]_vars

\* a timer has just expired one request while another one is still pending
\* with its timer armed
C13_Witness ==
  /\ step.act = "timeout" /\ promise[step.id] = TimedOut
  /\ \E id \in requests \ {step.id} :
       promise[id].state = "pending" /\ timeout[id] = "armed"

\* C14: a response changes the promise of the request it names and of no
\* other, whatever the order of arrival; the named request is the one whose
\* wire payload carried that requestId, and it gets that response's data or
\* error.  A promise is settled by a response in no other way.
C14_SettledByOwnResponse ==
  [][/\ step'.act = "message" => \A m \in KeyMessages :
          (step'.id = m.requestId /\ onMessage(m)) =>
            \A id \in Ids : promise'[id] # promise[id] =>
              /\ id = m.requestId
              /\ \E k \in 1..Len(sent) : sent[k].requestId = id
              /\ promise'[id] = IF m.error # "absent" THEN ServerError(stringify(m))
                                 ELSE Resolved(m.data)
     /\ \A id \in Ids :
          promise'[id] # promise[id] /\ promise'[id].state \in {"resolved", "rejected"}
            /\ promise'[id] # TimedOut
          => step'.act = "message" /\ step'.id = id]_vars

\* two requests sent through different handles were in flight together; the
\* second was answered first, and each caller got its own data
C14_Witness ==
  /\ Len(sent) = 2 /\ sent[1].path # sent[2].path
  /\ promise[sent[1].requestId] = Resolved("d1")
  /\ promise[sent[2].requestId] = Resolved("d2")
  /\ step.act = "message" /\ step.id = sent[1].requestId

\* C15: the requestId of a new request was never issued before: it has no
\* entry in manager.requests, no promise and no payload on the wire, and
\* registering it leaves every entry already there in place.
C15_FreshRequestId ==
  [][step'.act = "operation" /\ step'.out \in {"submitted", "send threw"} =>
       /\ step'.id \notin requests
       /\ promise[step'.id] = NoPromise
       /\ \A k \in 1..Len(sent) : sent[k].requestId # step'.id
       /\ requests' = requests \cup {step'.id}
       /\ \A id \in requests : promise'[id] = promise[id] /\ timeout'[id] = timeout[id]]_vars

\* a request has just been registered next to an earlier one that is still
\* in the table
C15_Witness ==
  /\ step.act = "operation" /\ step.out = "submitted"
  /\ requests = Ids /\ Len(sent) = MaxReq
  /\ \A j, k \in 1..Len(sent) : j # k => sent[j].requestId # sent[k].requestId

\* C16: one call of has, get or delete with a valid key on an open socket
\* adds exactly one entry, sends exactly one message and arms its timer; the
\* entry's promise is settled, and once settled it never changes.
C16_OneRequestPerCall ==
  /\ [][call'.op \in {"has", "get", "delete"} /\ readyState = "OPEN" =>
          /\ step'.out = "submitted"
          /\ step'.id \notin requests /\ requests' = requests \cup {step'.id}
          /\ sent' = Append(sent, [requestId |-> step'.id, path |-> sent'[Len(sent')].path])
          /\ promise'[step'.id] = Pending /\ timeout'[step'.id] = "armed"]_vars
  /\ [][\A id \in Ids : promise[id].state \in {"resolved", "rejected"}
                          => promise'[id] = promise[id]]_vars
  /\ \A id \in Ids : promise[id].state = "pending"
                        ~> promise[id].state \in {"resolved", "rejected"}

\* delete has just been called with a key of 255 characters and its request
\* is in flight next to an earlier one
C16_Witness ==
  /\ call = Call("delete", StrKey(MaxKeyLen), GoodValue)
  /\ step.out = "submitted" /\ step.id \in requests
  /\ timeout[step.id] = "armed" /\ Cardinality(requests) = 2

\* a string of 1 to 255 characters
KeyIsValid(key) == key.t = "string" /\ key.len >= 1 /\ key.len <= MaxKeyLen

\* the step is a call of a key-taking operation with this key, the
\* other arguments being valid
KeyTakingCall(db, key) ==
  \/ has(db, key) \/ get(db, key) \/ delete(db, key) \/ set(db, key, GoodValue)
  \/ pop(db, key) \/ shift(db, key)
  \/ push(db, key, GoodValue) \/ unshift(db, key, GoodValue)
  \/ \E b \in ValidBounds : slice(db, key, b, b)

\* C17: on an open socket a key-taking operation submits its request if the
\* key is a string of 1 to 255 characters, and otherwise fails as an invalid
\* key with nothing submitted.
C17_KeyLengthOneTo255 ==
  [][step'.act = "operation" => \A db \in databases, key \in Keys :
       (readyState = "OPEN" /\ KeyTakingCall(db, key)) =>
         IF KeyIsValid(key)
           THEN step'.out = "submitted"
           ELSE step'.out = "invalid key" /\ UNCHANGED <<requests, sent>>]_vars

\* the key the claim calls invalid: the empty string or no string
KeyIsBad(key) == key.t # "string" \/ key.len = 0

\* C18: deleteMany of an array holding an invalid key (the empty string or
\* no string) fails naming the index of the first key the running revision
\* rejects, and submits nothing.
C18_DeleteManyNamesFirstInvalid ==
  [][step'.act = "operation" => \A db \in databases, keys \in KeyBatches :
       (/\ keys.isArray /\ firstBad(keys.items, KeyIsBad) # 0
        /\ deleteMany(db, keys)) =>
         /\ step'.out = "invalid key"
         /\ step'.idx = firstBad(keys.items, keyThrows) - 1
         /\ UNCHANGED <<requests, sent>>]_vars

\* C19: getMany and setMany of an array whose first invalid element is at
\* index i fail with an error that names index i, and setMany's error says
\* whether the element, its key or its value is at fault.
C19_ManyNamesFirstInvalid ==
  [][step'.act = "operation" => \A db \in databases :
       /\ \A keys \in KeyBatches :
            (/\ keys.isArray /\ firstBad(keys.items, keyThrows) # 0
             /\ getMany(db, keys)) =>
              /\ step'.out = "invalid key"
              /\ step'.idx = firstBad(keys.items, keyThrows) - 1
       /\ \A data \in ElementBatches :
            LET Bad(e) == elementError(db, e) # "ok"
            IN (/\ data.isArray /\ firstBad(data.items, Bad) # 0
                /\ setMany(db, data)) =>
                 /\ step'.out \in {"element", "key", "value"}
                 /\ step'.idx = firstBad(data.items, Bad) - 1]_vars

\* C20: push and unshift on a handle with a schema submit exactly when the
\* schema accepts the one-element array [value], whatever it says of value
\* itself; when it rejects, nothing is stored, armed or sent.
C20_PushValidatesWrapped ==
  [][\A db \in databases, key \in PushKeys, value \in Values :
       (/\ readyState = "OPEN" /\ validateKey(key)
        /\ \/ call' = Call("push", key, value) /\ push(db, key, value)
           \/ call' = Call("unshift", key, value) /\ unshift(db, key, value)) =>
         IF db.schema /\ ~value.okWrapped
           THEN /\ step'.out = "schema"
                /\ UNCHANGED <<requests, promise, timeout, sent, nextId>>
           ELSE step'.out \in {"submitted", "send threw"}]_vars

\* push has just submitted, through the handle with a schema, a value the
\* schema rejects bare and accepts wrapped
C20_Witness ==
  /\ call = Call("push", StrKey(1), [ok |-> FALSE, okWrapped |-> TRUE, json |-> TRUE])
  /\ step.out = "submitted" /\ step.id \in requests
  /\ sent[Len(sent)] = Payload(TypedDb, step.id)

\* C21: every key of manager.requests names a request whose promise is
\* still pending; a resolved, rejected or timed-out request is not in the
\* table.
C21_TableHoldsPendingOnly ==
  \A id \in requests : promise[id].state = "pending"

\* C22: within one call the entry is registered, then its timer is
\* started, then the payload is sent: when a timer is armed its request is in
\* the table and not yet on the wire, and when a payload goes on the wire
\* its request is in the table with its timer armed.
C22_RegisterArmSend ==
  [][/\ \A id \in Ids :
          timeout[id] # "armed" /\ timeout'[id] = "armed" =>
            /\ id \in requests
            /\ \A k \in 1..Len(sent) : sent[k].requestId # id
     /\ Len(sent') > Len(sent) =>
          /\ sent'[Len(sent')].requestId \in requests
          /\ timeout[sent'[Len(sent')].requestId] = "armed"]_vars

\* C23: when an operation call returns or throws, every entry it added to
\* manager.requests has its timer armed.
C23_NoEntryWithoutTimer ==
  [][step'.act = "operation" =>
       \A id \in requests' \ requests : timeout'[id] = "armed"]_vars

====
